---- MODULE Spec2Model ----
(***************************************************************************)
(* invenio-cli (src/invenio_cli/cli.py): one command-line process at a     *)
(* time reads the .invenio configuration file, builds the InvenioCli       *)
(* context object in the click group callback and runs one command body,   *)
(* which shells out to cookiecutter, pipenv, bash scripts, docker and      *)
(* docker-compose.  The file on disk is the only state that survives a     *)
(* process.                                                                *)
(***************************************************************************)
EXTENDS Naturals, Sequences, FiniteSets

VARIABLES
    file,         \* .invenio on disk: [exists, content]
    pc,           \* position of the process: "shell" when none is running
    argv,         \* command line of the running process
    ctx_obj,      \* ctx.obj, the InvenioCli instance of the running process
    calls,        \* external calls the running process has made, in order
    exitCode,     \* exit status, meaningful when pc = "exit"
    raised,       \* exception that ended the process, None if none
    log,          \* messages the process has logged or printed
    sigints,      \* SIGINTs delivered to the running process
    fileAtStart,  \* history: the file when the process started
    provisioned   \* history: directories cookiecutter has returned

vars == <<file, pc, argv, ctx_obj, calls, exitCode, raised, log, sigints,
          fileAtStart, provisioned>>

-----------------------------------------------------------------------------
(* Values *)

None == "None"

\* --flavour is click.Choice(['RDM'], case_sensitive=False): both spellings
\* are accepted on the command line and may reach InvenioCli.
Flavours == {"RDM", "rdm"}

\* Project directories cookiecutter may hand back.
Dirs == {"my-site", "other-site"}

Commands == {"init", "build", "setup", "server", "destroy", "upgrade"}

\* Attributes an InvenioCli instance has.
InvenioCliAttrs == {"cwd", "config", "flavour"}

HasAttr(a) == a \in InvenioCliAttrs

-----------------------------------------------------------------------------
(* ConfigParser and the file *)

\* ConfigParser(): no section.
EmptyConfig == [cli |-> FALSE, flavour |-> None, cwd |-> None]

Configs ==
    {EmptyConfig} \cup
    [cli : {TRUE}, flavour : Flavours \cup {None}, cwd : Dirs \cup {None}]

NoFile == [exists |-> FALSE, content |-> EmptyConfig]

\* open(CONFIG_FILENAME, 'w'): the file exists and is empty.
Truncated == [exists |-> TRUE, content |-> EmptyConfig]

FileStates == {NoFile} \cup [exists : {TRUE}, content : Configs]

\* config.read(CONFIG_FILENAME): a missing file is skipped; the sections and
\* keys of the file are merged into what the parser already holds.
ConfigRead(config, f) ==
    IF f.exists /\ f.content.cli
    THEN [cli     |-> TRUE,
          flavour |-> IF f.content.flavour # None THEN f.content.flavour
                      ELSE config.flavour,
          cwd     |-> IF f.content.cwd # None THEN f.content.cwd
                      ELSE config.cwd]
    ELSE config

\* config.write(configfile) on the file opened for writing.
ConfigWrite(config) == [exists |-> TRUE, content |-> config]

-----------------------------------------------------------------------------
(* InvenioCli.__init__ *)

NoObj == [made |-> FALSE, flavour |-> None, cwd |-> None, config |-> EmptyConfig]

FlavourMismatchNever(flavour, config_flavour) == FALSE

\* 'if flavour and flavour != config_flavour'
FlavourMismatch(flavour, config_flavour) ==
    flavour # None /\ flavour # config_flavour

MsgDiffers == "Config flavour in .invenio differs form the specified"
MsgNotConfigured == "Flavour not configured"
MsgNoFlavour == "No flavour specified."
MsgAlreadyExists == "An invenio-cli configuration file (.invenio)already exists. Cannot override"
MsgNotSupported == "ERROR: Not supported yet..."

InitExit(msg) == [exit |-> TRUE, msg |-> msg, obj |-> NoObj]

InitOk(flavour, cwd, config) ==
    [exit |-> FALSE, msg |-> None,
     obj |-> [made |-> TRUE, flavour |-> flavour, cwd |-> cwd, config |-> config]]

InvenioCliInitLenient(flavour, f) ==
    LET config == ConfigRead(EmptyConfig, f) IN
    IF f.exists /\ config.cli /\ config.flavour # None
    THEN IF FlavourMismatch(flavour, config.flavour)
         THEN InitExit(MsgDiffers)
         ELSE InitOk(config.flavour, config.cwd, config)
    ELSE IF flavour # None
         THEN InitOk(flavour, None, config)
         ELSE InitExit(MsgNoFlavour)

\* The constructor: exit(1) with a logged message, or the instance.
InvenioCliInit(flavour, f) ==
    LET config == ConfigRead(EmptyConfig, f) IN
    IF f.exists
    THEN IF ~config.cli \/ config.flavour = None
         THEN InitExit(MsgNotConfigured)
         ELSE IF FlavourMismatch(flavour, config.flavour)
              THEN InitExit(MsgDiffers)
              ELSE InitOk(config.flavour, config.cwd, config)
    ELSE IF flavour # None
         THEN InitOk(flavour, None, config)
         ELSE InitExit(MsgNoFlavour)

-----------------------------------------------------------------------------
(* External calls *)

Call(op, dev, result) == [op |-> op, dev |-> dev, result |-> result]

\* subprocess.call returns the exit status (which no caller reads) or raises
\* OSError when the program cannot be started.
SubprocessResults == {"ok", "nonzero", "raise"}

\* A Python call into cookiecutter, the docker SDK or DockerCompose returns
\* or raises.
PythonResults == {"ok", "raise"}

-----------------------------------------------------------------------------
(* The process *)

DefaultFlags ==
    [dev |-> FALSE, base |-> FALSE, app |-> FALSE, lock |-> TRUE,
     bg |-> FALSE, start |-> TRUE]

NoArgv == [cmd |-> None, flavour |-> None, flags |-> DefaultFlags]

\* The flag sets each command accepts; a flag a command does not declare
\* keeps the value of DefaultFlags.
FlagsOf(cmd) ==
    CASE cmd = "build" ->
           {[DefaultFlags EXCEPT !.dev = d, !.base = b, !.app = a, !.lock = l] :
              d \in BOOLEAN, b \in BOOLEAN, a \in BOOLEAN, l \in BOOLEAN}
      [] cmd = "server" ->
           {[DefaultFlags EXCEPT !.dev = d, !.bg = b, !.start = s] :
              d \in BOOLEAN, b \in BOOLEAN, s \in BOOLEAN}
      [] cmd \in {"setup", "destroy"} ->
           {[DefaultFlags EXCEPT !.dev = d] : d \in BOOLEAN}
      [] OTHER -> {DefaultFlags}

Init ==
    /\ file \in FileStates
    /\ pc = "shell"
    /\ argv = NoArgv
    /\ ctx_obj = NoObj
    /\ calls = <<>>
    /\ exitCode = 0
    /\ raised = None
    /\ log = {}
    /\ sigints = 0
    /\ fileAtStart = file
    /\ provisioned = {}

\* The operator starts invenio-cli.
Invoke ==
    /\ pc = "shell"
    /\ \E cmd \in Commands, flavour \in Flavours \cup {None} :
         \E flags \in FlagsOf(cmd) :
            argv' = [cmd |-> cmd, flavour |-> flavour, flags |-> flags]
    /\ pc' = "cli"
    /\ fileAtStart' = file
    /\ UNCHANGED <<file, ctx_obj, calls, exitCode, raised, log, sigints, provisioned>>

\* The group callback: ctx.obj = InvenioCli(flavour=flavour).
Cli ==
    /\ pc = "cli"
    /\ LET r == InvenioCliInit(argv.flavour, file) IN
         IF r.exit
         THEN /\ pc' = "exit"
              /\ exitCode' = 1
              /\ raised' = "SystemExit"
              /\ log' = log \cup {r.msg}
              /\ UNCHANGED ctx_obj
         ELSE /\ pc' = argv.cmd
              /\ ctx_obj' = r.obj
              /\ UNCHANGED <<exitCode, raised, log>>
    /\ UNCHANGED <<file, argv, calls, sigints, fileAtStart, provisioned>>

Terminate(code, exc) ==
    /\ pc' = "exit"
    /\ exitCode' = code
    /\ raised' = exc

\* init.  An exception out of cookiecutter leaves the function before the
\* file is opened.  Otherwise the file is opened for writing, which empties
\* it, and read back into the parser the constructor filled.
InitCmdWritesOnFailure ==
    /\ pc = "init"
    /\ \E context \in Dirs \cup {"raise"} :
         LET config == ConfigRead(ctx_obj.config, Truncated)
             result == IF context = "raise" THEN "raise" ELSE "ok"
             cwd    == IF context = "raise" THEN None ELSE context
         IN /\ calls' = Append(calls, Call("cookiecutter", FALSE, result))
            /\ provisioned' = IF context = "raise" THEN provisioned
                              ELSE provisioned \cup {context}
            /\ IF config.cli
               THEN /\ log' = log \cup {MsgAlreadyExists}
                    /\ file' = Truncated
               ELSE /\ file' = ConfigWrite([cli |-> TRUE, cwd |-> cwd,
                                            flavour |-> ctx_obj.flavour])
                    /\ UNCHANGED log
            /\ Terminate(0, None)
    /\ UNCHANGED <<argv, ctx_obj, sigints, fileAtStart>>

InitCmd ==
    /\ pc = "init"
    /\ \E context \in Dirs \cup {"raise"} :
         IF context = "raise"
         THEN /\ calls' = Append(calls, Call("cookiecutter", FALSE, "raise"))
              /\ Terminate(1, "ProvisionError")
              /\ UNCHANGED <<file, log, provisioned>>
         ELSE LET config == ConfigRead(ctx_obj.config, Truncated) IN
              /\ calls' = Append(calls, Call("cookiecutter", FALSE, "ok"))
              /\ provisioned' = provisioned \cup {context}
              /\ IF config.cli
                 THEN /\ log' = log \cup {MsgAlreadyExists}
                      /\ file' = Truncated
                 ELSE /\ file' = ConfigWrite([cli |-> TRUE, cwd |-> context,
                                              flavour |-> ctx_obj.flavour])
                      /\ UNCHANGED log
              /\ Terminate(0, None)
    /\ UNCHANGED <<argv, ctx_obj, sigints, fileAtStart>>

\* build, 'if lock': subprocess.call(['pipenv', 'lock']).
BuildLock ==
    /\ pc = "build"
    /\ IF argv.flags.lock
       THEN \E r \in SubprocessResults :
              /\ calls' = Append(calls, Call("pipenv lock", FALSE, r))
              /\ IF r = "raise"
                 THEN Terminate(1, "OSError")
                 ELSE pc' = "build_env" /\ UNCHANGED <<exitCode, raised>>
       ELSE pc' = "build_env" /\ UNCHANGED <<calls, exitCode, raised>>
    /\ UNCHANGED <<file, argv, ctx_obj, log, sigints, fileAtStart, provisioned>>

\* build, 'if dev': subprocess.call(['/bin/bash', 'scripts/bootstrap', '--dev']).
BuildBootstrap ==
    /\ pc = "build_env"
    /\ argv.flags.dev
    /\ \E r \in SubprocessResults :
         /\ calls' = Append(calls, Call("scripts/bootstrap", TRUE, r))
         /\ IF r = "raise"
            THEN Terminate(1, "OSError")
            ELSE pc' = "build_create" /\ UNCHANGED <<exitCode, raised>>
    /\ UNCHANGED <<file, argv, ctx_obj, log, sigints, fileAtStart, provisioned>>

\* build, 'else: if base': client.images.build(dockerfile='Dockerfile.base').
BuildBase ==
    /\ pc = "build_env"
    /\ ~argv.flags.dev
    /\ IF argv.flags.base
       THEN \E r \in PythonResults :
              /\ calls' = Append(calls, Call("docker build base", FALSE, r))
              /\ IF r = "raise"
                 THEN Terminate(1, "DockerError")
                 ELSE pc' = "build_app" /\ UNCHANGED <<exitCode, raised>>
       ELSE pc' = "build_app" /\ UNCHANGED <<calls, exitCode, raised>>
    /\ UNCHANGED <<file, argv, ctx_obj, log, sigints, fileAtStart, provisioned>>

BuildAppUnconditional ==
    /\ pc = "build_app"
    /\ \E r \in PythonResults :
         /\ calls' = Append(calls, Call("docker build app", FALSE, r))
         /\ IF r = "raise"
            THEN Terminate(1, "DockerError")
            ELSE pc' = "build_create" /\ UNCHANGED <<exitCode, raised>>
    /\ UNCHANGED <<file, argv, ctx_obj, log, sigints, fileAtStart, provisioned>>

\* build, 'if app': client.images.build(dockerfile='Dockerfile').
BuildApp ==
    /\ pc = "build_app"
    /\ IF argv.flags.app
       THEN \E r \in PythonResults :
              /\ calls' = Append(calls, Call("docker build app", FALSE, r))
              /\ IF r = "raise"
                 THEN Terminate(1, "DockerError")
                 ELSE pc' = "build_create" /\ UNCHANGED <<exitCode, raised>>
       ELSE pc' = "build_create" /\ UNCHANGED <<calls, exitCode, raised>>
    /\ UNCHANGED <<file, argv, ctx_obj, log, sigints, fileAtStart, provisioned>>

\* build, last statement of either branch:
\* DockerCompose.create_containers(dev=..., cwd=cli_obj.cwd).
BuildCreate ==
    /\ pc = "build_create"
    /\ \E r \in PythonResults :
         /\ calls' = Append(calls, Call("create_containers", argv.flags.dev, r))
         /\ IF r = "raise"
            THEN Terminate(1, "DockerError")
            ELSE Terminate(0, None)
    /\ UNCHANGED <<file, argv, ctx_obj, log, sigints, fileAtStart, provisioned>>

\* Evaluating app_builder.<a> on the InvenioCli instance.
AttributeError(a) ==
    /\ ~HasAttr(a)
    /\ Terminate(1, "AttributeError")
    /\ UNCHANGED <<calls, log>>

\* setup: the first statement formats app_builder.name.
Setup ==
    /\ pc = "setup"
    /\ IF HasAttr("name") /\ HasAttr("project_name")
       THEN \E r \in SubprocessResults :
              /\ calls' = Append(calls,
                     Call(IF argv.flags.dev THEN "scripts/setup"
                          ELSE "docker-compose exec web-api scripts/setup",
                          argv.flags.dev, r))
              /\ IF r = "raise" THEN Terminate(1, "OSError")
                 ELSE Terminate(0, None)
              /\ UNCHANGED log
       ELSE AttributeError("name")
    /\ UNCHANGED <<file, argv, ctx_obj, sigints, fileAtStart, provisioned>>

\* server: the first statement formats app_builder.name, which raises; the
\* signal handler of the 'if start' branch is never installed and neither
\* start_containers, scripts/server nor stop_containers is reached.
Server ==
    /\ pc = "server"
    /\ AttributeError("name")
    /\ UNCHANGED <<file, argv, ctx_obj, sigints, fileAtStart, provisioned>>

\* SIGINT to a server process.  signal.signal has not run at any position
\* the process reaches, so the interpreter's default handler raises
\* KeyboardInterrupt and the process ends.
Interrupt ==
    /\ argv.cmd = "server"
    /\ pc \in {"cli", "server"}
    /\ sigints' = sigints + 1
    /\ Terminate(1, "KeyboardInterrupt")
    /\ UNCHANGED <<file, argv, ctx_obj, calls, log, fileAtStart, provisioned>>

\* destroy: the first statement formats app_builder.name.
Destroy ==
    /\ pc = "destroy"
    /\ IF HasAttr("name") /\ HasAttr("project_name")
       THEN \E r \in PythonResults :
              /\ calls' = Append(calls,
                     Call("destroy_containers", argv.flags.dev, r))
              /\ IF r = "raise" THEN Terminate(1, "DockerError")
                 ELSE Terminate(0, None)
              /\ UNCHANGED log
       ELSE AttributeError("name")
    /\ UNCHANGED <<file, argv, ctx_obj, sigints, fileAtStart, provisioned>>

\* upgrade: the first statement formats app_builder.name.
Upgrade ==
    /\ pc = "upgrade"
    /\ IF HasAttr("name")
       THEN /\ log' = log \cup {MsgNotSupported}
            /\ Terminate(0, None)
            /\ UNCHANGED calls
       ELSE AttributeError("name")
    /\ UNCHANGED <<file, argv, ctx_obj, sigints, fileAtStart, provisioned>>

\* The process is gone; the shell is back.
Exit ==
    /\ pc = "exit"
    /\ pc' = "shell"
    /\ argv' = NoArgv
    /\ ctx_obj' = NoObj
    /\ calls' = <<>>
    /\ exitCode' = 0
    /\ raised' = None
    /\ log' = {}
    /\ sigints' = 0
    /\ fileAtStart' = file
    /\ UNCHANGED <<file, provisioned>>

Next ==
    \/ Invoke
    \/ Cli
    \/ InitCmd
    \/ BuildLock
    \/ BuildBootstrap
    \/ BuildBase
    \/ BuildApp
    \/ BuildCreate
    \/ Setup
    \/ Server
    \/ Interrupt
    \/ Destroy
    \/ Upgrade
    \/ Exit

\* Any directory the operator may run the tool in.
Spec == Init /\ [][Next]_vars

\* A directory the tool has never been run in.
InitFresh == Init /\ file = NoFile

SpecFresh == InitFresh /\ [][Next]_vars
-----------------------------------------------------------------------------
(* Properties *)

\* The file holds a flavour: section cli with key flavour.
HasFlavour(f) == f.exists /\ f.content.cli /\ f.content.flavour # None

\* The file holds a complete record: section cli, keys flavour and cwd.
HasRecord(f) == HasFlavour(f) /\ f.content.cwd # None

\* The constructor has run: the process is past the group callback and was
\* not interrupted before it.
PastLoad == pc \notin {"shell", "cli"} /\ (raised = "KeyboardInterrupt" => ctx_obj.made)

\* The constructor ended the process with exit(1) and the message msg.
LoadFailed(msg) ==
    /\ pc = "exit"
    /\ exitCode = 1
    /\ raised = "SystemExit"
    /\ msg \in log
    /\ ~ctx_obj.made
    /\ calls = <<>>
    /\ file = fileAtStart

\* The operations of a sequence of calls.
Ops(cs) == [i \in 1..Len(cs) |-> cs[i].op]

IsPrefix(s, t) == Len(s) <= Len(t) /\ \A i \in 1..Len(s) : s[i] = t[i]

\* C1: an init that finds a complete record, with the same or no --flavour,
\* ends with a non-zero exit status and leaves the record on disk exactly as
\* it found it.
C1_SecondInitFailsAndKeepsRecord ==
    ( /\ pc = "exit"
      /\ argv.cmd = "init"
      /\ HasRecord(fileAtStart)
      /\ argv.flavour \in {None, fileAtStart.content.flavour} )
    => (exitCode # 0 /\ file = fileAtStart)

\* C2: whatever the command, when a flavour is supplied, a flavour is
\* persisted and the two differ, the process is at its exit with status 1
\* once the constructor has run, it has made no external call and the file
\* is as it was.
C2_MismatchExitsBeforeAnyCall ==
    ( /\ pc \notin {"shell", "cli"}
      /\ argv.flavour # None
      /\ HasFlavour(fileAtStart)
      /\ argv.flavour # fileAtStart.content.flavour )
    => ( /\ pc = "exit"
         /\ exitCode = 1
         /\ calls = <<>>
         /\ ~ctx_obj.made
         /\ file = fileAtStart )

C2_Witness ==
    /\ pc = "exit"
    /\ argv.cmd = "build"
    /\ raised = "SystemExit"
    /\ argv.flavour # None
    /\ HasFlavour(fileAtStart)
    /\ argv.flavour # fileAtStart.content.flavour

\* C3: build in dev mode with --base or --app ends with a non-zero exit
\* status and has made no external call.
C3_DevWithImagesFailsFast ==
    ( /\ pc = "exit"
      /\ argv.cmd = "build"
      /\ ctx_obj.made
      /\ argv.flags.dev
      /\ (argv.flags.base \/ argv.flags.app) )
    => (exitCode # 0 /\ calls = <<>>)

\* The calls build --prod is to make, in order.
ExpectedProdOps(flags) ==
    (IF flags.lock THEN <<"pipenv lock">> ELSE <<>>)
    \o (IF flags.base THEN <<"docker build base">> ELSE <<>>)
    \o (IF flags.app THEN <<"docker build app">> ELSE <<>>)
    \o <<"create_containers">>

\* C4: in a build --prod the calls made so far are always an initial part of
\* [lock if --lock], [base image if --base], [app image if --app], full
\* container creation; a build --prod that ends with status 0 has made
\* exactly these calls, the last one with dev = false, and no bootstrap call.
\* With --base --app --no-lock these are the three calls base, app, create.
C4_ProdBuildOrder ==
    (argv.cmd = "build" /\ ~argv.flags.dev)
    => ( /\ IsPrefix(Ops(calls), ExpectedProdOps(argv.flags))
         /\ (pc = "exit" /\ exitCode = 0)
            => ( /\ Ops(calls) = ExpectedProdOps(argv.flags)
                 /\ calls[Len(calls)].dev = FALSE ) )

C4_Witness ==
    /\ pc = "exit"
    /\ exitCode = 0
    /\ argv.cmd = "build"
    /\ ~argv.flags.dev /\ argv.flags.base /\ argv.flags.app /\ ~argv.flags.lock
    /\ Ops(calls) = <<"docker build base", "docker build app", "create_containers">>

StopCalls == {i \in 1..Len(calls) : calls[i].op = "stop_containers"}

\* C5: a foreground server --start --dev whose command body was entered and
\* that received an interrupt has invoked stop_containers exactly once when
\* it exits.
C5_InterruptStopsOnce ==
    ( /\ pc = "exit"
      /\ argv.cmd = "server"
      /\ argv.flags.start /\ argv.flags.dev /\ ~argv.flags.bg
      /\ ctx_obj.made
      /\ sigints >= 1 )
    => Cardinality(StopCalls) = 1

\* C6: a destroy that loaded a complete record has, at its exit, made exactly
\* one call, destroy_containers, with dev equal to the --dev flag.
C6_DestroyPassesMode ==
    ( /\ pc = "exit"
      /\ argv.cmd = "destroy"
      /\ ctx_obj.made
      /\ HasRecord(fileAtStart) )
    => ( /\ Len(calls) = 1
         /\ calls[1].op = "destroy_containers"
         /\ calls[1].dev = argv.flags.dev )

\* C7: in a build, a call that failed (a non-zero status or an exception) is
\* the last call made, and the process then exits non-zero.
C7_FailureAbortsBuild ==
    argv.cmd = "build"
    => \A i \in 1..Len(calls) :
          calls[i].result # "ok"
          => (i = Len(calls) /\ (pc = "exit" => exitCode # 0))

\* C8 as stated: a file without flavour or without cwd ends the process in
\* the constructor.
C8_MissingFieldIsFatal ==
    PastLoad
    => ( /\ (~fileAtStart.exists /\ argv.flavour = None)
            => LoadFailed(MsgNoFlavour)
         /\ (fileAtStart.exists /\ ~HasRecord(fileAtStart))
            => (pc = "exit" /\ exitCode = 1 /\ ~ctx_obj.made /\ calls = <<>>)
         /\ (~fileAtStart.exists /\ argv.flavour # None)
            => (ctx_obj.made /\ ctx_obj.flavour = argv.flavour) )

\* C8, amended: no file and no flavour supplied ends the process in the
\* constructor with status 1 ("No flavour specified."); a file without the
\* flavour key ends it with status 1 ("Flavour not configured"); in both
\* cases no command body runs.  No file and a flavour supplied loads with
\* that flavour.  A file with a flavour and no cwd (and no conflicting
\* --flavour) loads with the file's flavour and no working directory.
C8_LoadOutcomes ==
    PastLoad
    => ( /\ (~fileAtStart.exists /\ argv.flavour = None)
            => LoadFailed(MsgNoFlavour)
         /\ (fileAtStart.exists /\ ~HasFlavour(fileAtStart))
            => LoadFailed(MsgNotConfigured)
         /\ (~fileAtStart.exists /\ argv.flavour # None)
            => (ctx_obj.made /\ ctx_obj.flavour = argv.flavour /\ ctx_obj.cwd = None)
         /\ ( /\ HasFlavour(fileAtStart)
              /\ fileAtStart.content.cwd = None
              /\ argv.flavour \in {None, fileAtStart.content.flavour} )
            => ( /\ ctx_obj.made
                 /\ ctx_obj.flavour = fileAtStart.content.flavour
                 /\ ctx_obj.cwd = None ) )

C8_Witness ==
    /\ pc = "build"
    /\ ctx_obj.made
    /\ HasFlavour(fileAtStart)
    /\ fileAtStart.content.cwd = None
    /\ ctx_obj.cwd = None

\* C9: an upgrade that loaded a configuration has, at its exit, reported
\* that the operation is not supported, made no external call and left the
\* file as it was.
C9_UpgradeReportsUnsupported ==
    ( /\ pc = "exit"
      /\ argv.cmd = "upgrade"
      /\ ctx_obj.made )
    => ( /\ MsgNotSupported \in log
         /\ calls = <<>>
         /\ file = fileAtStart )

\* A working directory on disk is one cookiecutter returned.
C10_RecordProvisioned ==
    file.content.cwd # None => file.content.cwd \in provisioned

\* A step that changes the file is a step of init in which cookiecutter
\* returned.
C10_WriteAfterProvision ==
    file' # file
    => ( /\ pc = "init"
         /\ Len(calls') = Len(calls) + 1
         /\ calls'[Len(calls')] = Call("cookiecutter", FALSE, "ok") )

\* A step of init in which cookiecutter raised leaves the file alone and
\* ends the process with the exception.
C10_FailurePropagates ==
    ( /\ pc = "init"
      /\ Len(calls') = Len(calls) + 1
      /\ calls'[Len(calls')].result = "raise" )
    => ( /\ file' = file
         /\ provisioned' = provisioned
         /\ pc' = "exit"
         /\ exitCode' # 0
         /\ raised' = "ProvisionError" )

\* C10: starting in a directory without a configuration file, the file is
\* created or written only by an init step in which the provisioning call
\* returned; when provisioning raises, the exception ends the process and
\* the file is untouched; and a cwd on disk is always a directory some
\* provisioning call returned.
C10_CommitOnSuccessOnly ==
    /\ []C10_RecordProvisioned
    /\ [][C10_WriteAfterProvision /\ C10_FailurePropagates]_vars

C10_Witness ==
    /\ pc = "exit"
    /\ argv.cmd = "init"
    /\ raised = "ProvisionError"
    /\ HasRecord(file)
    /\ file.content.cwd \in provisioned
====
